---- MODULE Spec2Model ----
(***************************************************************************)
(* srestricted: SizeRestricted<T, C, MIN, MAX>, a wrapper that keeps the   *)
(* len of a LinearSizedCollection between MIN and MAX (src/src/lib.rs),    *)
(* over the backing collections of src/src/collections.                    *)
(*                                                                         *)
(* A collection is the sequence of its elements, the end of the collection *)
(* being the end of the sequence.  One behaviour follows one program that  *)
(* owns one collection: it builds a plain collection, hands it to a        *)
(* constructor of one wrapper type, works on the wrapper, and may unwrap   *)
(* it again.                                                               *)
(***************************************************************************)
EXTENDS Integers, Sequences, FiniteSets

VARIABLES
    MIN,          \* const generic MIN of the wrapper type
    MAX,          \* const generic MAX of the wrapper type
    kind,         \* the backing collection type C
    status,       \* who holds the collection: "plain", "wrapped", "mutating", "fatal"
    collection,   \* SizeRestricted::collection, or the plain C the caller holds
    call          \* the last public operation: its arguments and what it returned

vars == <<MIN, MAX, kind, status, collection, call>>

----------------------------------------------------------------------------
(* Bounds of the model *)

\* largest MIN / MAX of the bounded wrapper types explored
MaxBound == 3
\* element values are 0..MaxElem
MaxElem == 1
\* usize::MAX, the MAX of NonEmpty, at a reduced width
UsizeMax == 255

\* the most elements the memory holds in one collection: two more than MaxBound
MaxLen == MaxBound + 2

Elem == 0..MaxElem

\* the backing collections whose len() is the number of elements
Kinds == {"Vec", "VecDeque", "LinkedList"}
\* every backing collection the crate implements LinearSizedCollection for;
\* the elements of a String are chars
AllKinds == Kinds \cup {"String"}

\* <<MIN, MAX>> of the wrapper types: every pair up to MaxBound (MIN > MAX
\* included), NonEmpty, and the SizeRestricted<_, _, 1, 5> of the test suite
NonEmpty == <<1, UsizeMax>>
OneToFive == <<1, 5>>
Bounds == ((0..MaxBound) \X (0..MaxBound)) \cup {NonEmpty, OneToFive}

\* T::default() of the element type
T_default == 0

\* a generator closure FnMut() -> T: its i-th invocation (from 0) returns
\* start + i * step, wrapped into Elem
\* the generators tried: a constant that is not the default, and a counter
Fills == [start : {1}, step : {0, 1}]
FillVal(fill, i) == (fill.start + i * fill.step) % (MaxElem + 1)
\* Default::default used as generator
Default_default == [start |-> T_default, step |-> 0]

NoVal == -1
NoFill == [start |-> 0, step |-> 0]

----------------------------------------------------------------------------
(* LinearSizedCollection<T> and its implementations *)

\* char::len_utf8: the char numbered ch stands for a char of ch + 1 bytes
\* (char::default() = '\0' is one byte long)
len_utf8(ch) == ch + 1

\* String::len: the number of bytes of the string
RECURSIVE str_len(_)
str_len(c) == IF c = <<>> THEN 0 ELSE len_utf8(Head(c)) + str_len(Tail(c))

\* LinearSizedCollection::len: Vec::len, VecDeque::len, LinkedList::len, String::len
len(c) == IF kind = "String" THEN str_len(c) ELSE Len(c)

\* LinearSizedCollection::push: Vec::push, VecDeque::push_back, LinkedList::push_back,
\* String::push
C_push(c, val) == Append(c, val)

\* a pop that takes the element at the front (pop_front for pop_back)
C_pop_front(c) ==
    IF Len(c) = 0
    THEN [coll |-> c, val |-> NoVal]
    ELSE [coll |-> Tail(c), val |-> Head(c)]

\* LinearSizedCollection::pop: Vec::pop, VecDeque::pop_back, LinkedList::pop_back,
\* String::pop
C_pop(c) ==
    IF Len(c) = 0
    THEN [coll |-> c, val |-> NoVal]
    ELSE [coll |-> SubSeq(c, 1, Len(c) - 1), val |-> c[Len(c)]]

\* Vec::truncate / VecDeque::truncate
truncate(c, n) == IF n >= Len(c) THEN c ELSE SubSeq(c, 1, n)

\* the default shrink_to: for _ in len..self.len() { self.pop(); }
RECURSIVE pop_times(_, _)
pop_times(c, times) ==
    IF times = 0 THEN c ELSE pop_times(C_pop(c).coll, times - 1)

\* a default shrink_to that pops once instead of looping
default_shrink_to_once(c, n) ==
    pop_times(c, IF len(c) > n THEN 1 ELSE 0)

default_shrink_to(c, n) ==
    pop_times(c, IF len(c) > n THEN len(c) - n ELSE 0)

\* a shrink_to that stops one element early
shrink_to_early(c, n) == truncate(c, n + 1)

\* shrink_to: overridden with truncate by Vec and VecDeque, the default for
\* LinkedList and String
shrink_to(c, n) ==
    IF kind \in {"Vec", "VecDeque"} THEN truncate(c, n) ELSE default_shrink_to(c, n)

\* reserve: TRUE when it returns; Vec::reserve, VecDeque::reserve and String::reserve
\* panic when the capacity asked for is beyond what the memory holds;
\* LinkedList::reserve is empty
reserve(c, additional) ==
    IF kind \in {"Vec", "VecDeque", "String"} THEN Len(c) + additional <= MaxLen ELSE TRUE

\* the loop of extend_to_with: for _ in self.len()..len { self.push(fill()); }
\* done = pushes made so far; a push beyond the memory is an allocation failure
RECURSIVE extend_loop(_, _, _, _)
extend_loop(c, done, times, fill) ==
    IF done = times THEN [coll |-> c, fills |-> done, ok |-> TRUE]
    ELSE IF Len(c) >= MaxLen THEN [coll |-> c, fills |-> done + 1, ok |-> FALSE]
    ELSE extend_loop(C_push(c, FillVal(fill, done)), done + 1, times, fill)

\* an extend_to_with that stops one element short of len
extend_to_with_short(c, n, fill) ==
    extend_loop(c, 0, IF n > len(c) + 1 THEN n - len(c) - 1 ELSE 0, fill)

\* extend_to_with(len, fill)
extend_to_with(c, n, fill) ==
    LET additional == IF n > len(c) THEN n - len(c) ELSE 0   \* saturating_sub
    IN  IF ~reserve(c, additional)
        THEN [coll |-> c, fills |-> 0, ok |-> FALSE]
        ELSE extend_loop(c, 0, additional, fill)

\* extend_to(len, val): extend_to_with(len, || val.clone())
extend_to(c, n, val) == extend_to_with(c, n, [start |-> val, step |-> 0])

\* the test pop_after_push, from any starting contents: two pushes, two pops
pop_after_push(c, a, b) ==
    LET pushed == C_push(C_push(c, a), b)
        first == C_pop(pushed)
        second == C_pop(first.coll)
    IN  [coll |-> second.coll, out |-> <<first.val, second.val>>]

----------------------------------------------------------------------------
(* SizeRestricted<T, C, MIN, MAX> *)

\* const VALID: assert!(MIN <= MAX, ..)
VALID == MIN <= MAX

\* a check_fit that takes len = MAX for too large
check_fit_strict(c) ==
    IF len(c) >= MAX THEN "TooLarge"
    ELSE IF len(c) < MIN THEN "TooSmall"
    ELSE "Ok"

\* a check_fit with the two error kinds exchanged
check_fit_swapped(c) ==
    IF len(c) > MAX THEN "TooSmall"
    ELSE IF len(c) < MIN THEN "TooLarge"
    ELSE "Ok"

\* check_fit
check_fit(c) ==
    IF len(c) > MAX THEN "TooLarge"
    ELSE IF len(c) < MIN THEN "TooSmall"
    ELSE "Ok"

\* a make_fit_with that shrinks to MAX and extends to MIN
make_fit_with_nearest(c, fill) ==
    IF len(c) > MAX THEN [coll |-> shrink_to(c, MAX), fills |-> 0, ok |-> TRUE]
    ELSE IF len(c) < MIN THEN extend_to_with(c, MIN, fill)
    ELSE [coll |-> c, fills |-> 0, ok |-> TRUE]

\* make_fit_with: shrink to MIN when too large, extend to MAX when too small
make_fit_with(c, fill) ==
    CASE check_fit(c) = "Ok" -> [coll |-> c, fills |-> 0, ok |-> TRUE]
      [] check_fit(c) = "TooLarge" -> [coll |-> shrink_to(c, MIN), fills |-> 0, ok |-> TRUE]
      [] check_fit(c) = "TooSmall" -> extend_to_with(c, MAX, fill)

\* make_fit
make_fit(c) == make_fit_with(c, Default_default)

\* a create that wraps whatever it is given
create_unchecked(c) ==
    IF ~VALID THEN [status |-> "fatal", coll |-> <<>>, ret |-> "invalid"]
    ELSE [status |-> "wrapped", coll |-> c, ret |-> "Ok"]

\* a create without assert!(Self::VALID)
create_unasserted(c) ==
    IF check_fit(c) # "Ok" THEN [status |-> "fatal", coll |-> <<>>, ret |-> "panic"]
    ELSE [status |-> "wrapped", coll |-> c, ret |-> "Ok"]

\* create: the wrapper, or a panic
create(c) ==
    IF ~VALID THEN [status |-> "fatal", coll |-> <<>>, ret |-> "invalid"]
    ELSE IF check_fit(c) # "Ok" THEN [status |-> "fatal", coll |-> <<>>, ret |-> "panic"]
    ELSE [status |-> "wrapped", coll |-> c, ret |-> "Ok"]

\* a new that hands the collection to create without check_fit
new_unchecked(c) ==
    IF ~VALID THEN [status |-> "fatal", coll |-> <<>>, ret |-> "invalid"]
    ELSE create(c)

\* new: the wrapper, or the error kind with the collection handed back
new(c) ==
    IF ~VALID THEN [status |-> "fatal", coll |-> <<>>, ret |-> "invalid"]
    ELSE IF check_fit(c) = "Ok" THEN create(c)
    ELSE [status |-> "plain", coll |-> c, ret |-> check_fit(c)]

\* new_fit
new_fit(c) ==
    LET fit == make_fit(c)
    IN  IF ~fit.ok THEN [status |-> "fatal", coll |-> <<>>, ret |-> "alloc", fills |-> fit.fills]
        ELSE [status |-> create(fit.coll).status, coll |-> create(fit.coll).coll,
              ret |-> create(fit.coll).ret, fills |-> fit.fills]

\* a default that fills the collection up to MAX
default_full ==
    LET ext == extend_to_with(<<>>, MAX, Default_default)
    IN  IF ~ext.ok THEN [status |-> "fatal", coll |-> <<>>, ret |-> "alloc", fills |-> ext.fills]
        ELSE [status |-> "wrapped", coll |-> ext.coll, ret |-> "Ok", fills |-> ext.fills]

\* Default::default of the wrapper: C::default() extended to MIN, then create
default ==
    LET ext == extend_to_with(<<>>, MIN, Default_default)
    IN  IF ~ext.ok THEN [status |-> "fatal", coll |-> <<>>, ret |-> "alloc", fills |-> ext.fills]
        ELSE [status |-> create(ext.coll).status, coll |-> create(ext.coll).coll,
              ret |-> create(ext.coll).ret, fills |-> ext.fills]

\* a mutate that extends with Default::default instead of fill
mutate_default_fill(raw, fill) == make_fit_with(raw, Default_default)

\* a mutate that returns without making the collection fit
mutate_unfit(raw, fill) == [coll |-> raw, fills |-> 0, ok |-> TRUE]

\* mutate, after mutator(&mut self.collection) has left raw: make_fit_with(raw, fill)
mutate(raw, fill) == make_fit_with(raw, fill)

\* a push that refuses only beyond MAX
push_beyond(c, val) ==
    IF len(c) > MAX
    THEN [coll |-> c, ret |-> "TooLarge", out |-> val]
    ELSE [coll |-> C_push(c, val), ret |-> "Ok", out |-> NoVal]

\* push
push(c, val) ==
    IF len(c) = MAX
    THEN [coll |-> c, ret |-> "TooLarge", out |-> val]
    ELSE [coll |-> C_push(c, val), ret |-> "Ok", out |-> NoVal]

\* a pop that refuses one element above MIN already
pop_above_min(c) ==
    IF len(c) <= MIN + 1
    THEN [coll |-> c, ret |-> "None", out |-> NoVal]
    ELSE [coll |-> C_pop(c).coll,
          ret |-> IF C_pop(c).val = NoVal THEN "None" ELSE "Some",
          out |-> C_pop(c).val]

\* a pop that refuses only on an empty collection
pop_until_empty(c) ==
    [coll |-> C_pop(c).coll,
     ret |-> IF C_pop(c).val = NoVal THEN "None" ELSE "Some",
     out |-> C_pop(c).val]

\* pop
pop(c) ==
    IF len(c) = MIN
    THEN [coll |-> c, ret |-> "None", out |-> NoVal]
    ELSE [coll |-> C_pop(c).coll,
          ret |-> IF C_pop(c).val = NoVal THEN "None" ELSE "Some",
          out |-> C_pop(c).val]

\* into_inner
into_inner(c) == c

\* <SizeRangeError as Display>::fmt
fmt(e) == IF e = "TooLarge" THEN "Too Large" ELSE "Too Small"

\* C::serialize of the inner collection: a serde sequence of the elements, or a
\* str for a String
C_serialize(c) ==
    IF kind = "String" THEN [type |-> "str", items |-> c] ELSE [type |-> "seq", items |-> c]

\* Serialize for SizeRestricted: self.collection.serialize(serializer)
serialize(c) == C_serialize(c)

\* a deserialize that makes the decoded collection fit
deserialize_fit(decoded) ==
    [status |-> new_fit(decoded).status, coll |-> new_fit(decoded).coll,
     ret |-> new_fit(decoded).ret]

\* Deserialize for SizeRestricted, once C::deserialize has decoded a collection:
\* Self::new(collection).map_err(|(e, _)| serde::de::Error::custom(e))
deserialize(decoded) ==
    IF new(decoded).ret \in {"TooLarge", "TooSmall"}
    THEN [status |-> "plain", coll |-> <<>>, ret |-> fmt(new(decoded).ret)]
    ELSE new(decoded)

----------------------------------------------------------------------------
(* The record of the last call *)

\* op: the operation; arg: the collection it was given (for push and pop the
\* contents before the call, for mutate the raw collection the mutator left);
\* n: the len asked for (shrink_to, extend_to, extend_to_with);
\* val: the value pushed; fill: the generator; ret: the outcome; out: the
\* value returned; fills: the number of invocations of the generator
CallN(op, arg, n, val, fill, ret, out, fills) ==
    [op |-> op, arg |-> arg, n |-> n, val |-> val, fill |-> fill, ret |-> ret,
     out |-> out, fills |-> fills]

Call(op, arg, val, fill, ret, out, fills) ==
    CallN(op, arg, 0, val, fill, ret, out, fills)

NoCall == Call("none", <<>>, NoVal, NoFill, "unit", NoVal, 0)

types == <<MIN, MAX, kind>>

Init ==
    /\ \E b \in Bounds : MIN = b[1] /\ MAX = b[2]
    /\ kind \in Kinds
    /\ status = "plain"
    /\ collection = <<>>
    /\ call = NoCall

----------------------------------------------------------------------------
(* The caller works on its plain collection *)

PlainPush(val) ==
    /\ status = "plain"
    /\ len(collection) < MaxLen
    /\ collection' = C_push(collection, val)
    /\ call' = Call("C::push", collection, val, NoFill, "unit", NoVal, 0)
    /\ UNCHANGED <<types, status>>

PlainPop ==
    /\ status = "plain"
    /\ collection' = C_pop(collection).coll
    /\ call' = Call("C::pop", collection, NoVal, NoFill,
                    IF C_pop(collection).val = NoVal THEN "None" ELSE "Some",
                    C_pop(collection).val, 0)
    /\ UNCHANGED <<types, status>>

(* The associated functions on a plain collection *)

CheckFit ==
    /\ status = "plain"
    /\ call' = Call("check_fit", collection, NoVal, NoFill, check_fit(collection), NoVal, 0)
    /\ UNCHANGED <<types, status, collection>>

MakeFitWith(fill) ==
    /\ status = "plain"
    /\ LET fit == make_fit_with(collection, fill)
       IN  /\ status' = IF fit.ok THEN "plain" ELSE "fatal"
           /\ collection' = IF fit.ok THEN fit.coll ELSE <<>>
           /\ call' = Call("make_fit_with", collection, NoVal, fill,
                           IF fit.ok THEN "unit" ELSE "alloc", NoVal, fit.fills)
    /\ UNCHANGED types

MakeFit ==
    /\ status = "plain"
    /\ LET fit == make_fit(collection)
       IN  /\ status' = IF fit.ok THEN "plain" ELSE "fatal"
           /\ collection' = IF fit.ok THEN fit.coll ELSE <<>>
           /\ call' = Call("make_fit", collection, NoVal, Default_default,
                           IF fit.ok THEN "unit" ELSE "alloc", NoVal, fit.fills)
    /\ UNCHANGED types

(* The constructors *)

New ==
    /\ status = "plain"
    /\ status' = new(collection).status
    /\ collection' = new(collection).coll
    /\ call' = Call("new", collection, NoVal, NoFill, new(collection).ret, NoVal, 0)
    /\ UNCHANGED types

NewFit ==
    /\ status = "plain"
    /\ status' = new_fit(collection).status
    /\ collection' = new_fit(collection).coll
    /\ call' = Call("new_fit", collection, NoVal, Default_default,
                    new_fit(collection).ret, NoVal, new_fit(collection).fills)
    /\ UNCHANGED types

Create ==
    /\ status = "plain"
    /\ status' = create(collection).status
    /\ collection' = create(collection).coll
    /\ call' = Call("create", collection, NoVal, NoFill, create(collection).ret, NoVal, 0)
    /\ UNCHANGED types

\* the collection the caller held is dropped; the wrapper starts from C::default()
Default ==
    /\ status = "plain"
    /\ status' = default.status
    /\ collection' = default.coll
    /\ call' = Call("default", <<>>, NoVal, Default_default, default.ret, NoVal, default.fills)
    /\ UNCHANGED types

(* The operations of the wrapper *)

Push(val) ==
    /\ status = "wrapped"
    /\ len(push(collection, val).coll) <= MaxLen
    /\ collection' = push(collection, val).coll
    /\ call' = Call("push", collection, val, NoFill, push(collection, val).ret,
                    push(collection, val).out, 0)
    /\ UNCHANGED <<types, status>>

Pop ==
    /\ status = "wrapped"
    /\ collection' = pop(collection).coll
    /\ call' = Call("pop", collection, NoVal, NoFill, pop(collection).ret,
                    pop(collection).out, 0)
    /\ UNCHANGED <<types, status>>

IntoInner ==
    /\ status = "wrapped"
    /\ status' = "plain"
    /\ collection' = into_inner(collection)
    /\ call' = Call("into_inner", collection, NoVal, NoFill, "unit", NoVal, 0)
    /\ UNCHANGED types

(* mutate(fill, mutator): the mutator runs on the raw collection, one      *)
(* LinearSizedCollection operation at a time, and when it returns the      *)
(* collection is made to fit                                               *)

MutateCall ==
    /\ status = "wrapped"
    /\ status' = "mutating"
    /\ call' = Call("mutator", <<>>, NoVal, NoFill, "unit", NoVal, 0)
    /\ UNCHANGED <<types, collection>>

MutatorPush(val) ==
    /\ status = "mutating"
    /\ len(collection) < MaxLen
    /\ collection' = C_push(collection, val)
    /\ UNCHANGED <<types, status, call>>

MutatorPop ==
    /\ status = "mutating"
    /\ collection' = C_pop(collection).coll
    /\ UNCHANGED <<types, status, call>>

MutateReturn(fill) ==
    /\ status = "mutating"
    /\ LET fit == mutate(collection, fill)
       IN  /\ status' = IF fit.ok THEN "wrapped" ELSE "fatal"
           /\ collection' = IF fit.ok THEN fit.coll ELSE <<>>
           /\ call' = Call("mutate", collection, NoVal, fill,
                           IF fit.ok THEN "unit" ELSE "alloc", NoVal, fit.fills)
    /\ UNCHANGED types

Next ==
    \/ \E val \in Elem : PlainPush(val)
    \/ PlainPop
    \/ CheckFit
    \/ \E fill \in Fills : MakeFitWith(fill)
    \/ MakeFit
    \/ New
    \/ NewFit
    \/ Create
    \/ Default
    \/ \E val \in Elem : Push(val)
    \/ Pop
    \/ IntoInner
    \/ MutateCall
    \/ \E val \in Elem : MutatorPush(val)
    \/ MutatorPop
    \/ \E fill \in Fills : MutateReturn(fill)

Spec == Init /\ [][Next]_vars

(* The operations of LinearSizedCollection on a plain collection of every  *)
(* backing type; no wrapper is made, MIN and MAX are not read              *)

PlainShrinkTo(n) ==
    /\ status = "plain"
    /\ collection' = shrink_to(collection, n)
    /\ call' = CallN("shrink_to", collection, n, NoVal, NoFill, "unit", NoVal, 0)
    /\ UNCHANGED <<types, status>>

PlainExtendToWith(n, fill) ==
    /\ status = "plain"
    /\ LET ext == extend_to_with(collection, n, fill)
       IN  /\ status' = IF ext.ok THEN "plain" ELSE "fatal"
           /\ collection' = IF ext.ok THEN ext.coll ELSE <<>>
           /\ call' = CallN("extend_to_with", collection, n, NoVal, fill,
                            IF ext.ok THEN "unit" ELSE "alloc", NoVal, ext.fills)
    /\ UNCHANGED types

PlainExtendTo(n, val) ==
    /\ status = "plain"
    /\ LET ext == extend_to(collection, n, val)
       IN  /\ status' = IF ext.ok THEN "plain" ELSE "fatal"
           /\ collection' = IF ext.ok THEN ext.coll ELSE <<>>
           /\ call' = CallN("extend_to", collection, n, val, [start |-> val, step |-> 0],
                            IF ext.ok THEN "unit" ELSE "alloc", NoVal, ext.fills)
    /\ UNCHANGED types

PopAfterPush(a, b) ==
    /\ status = "plain"
    /\ Len(collection) + 2 <= MaxLen
    /\ collection' = pop_after_push(collection, a, b).coll
    /\ call' = Call("pop_after_push", collection, <<a, b>>, NoFill, "unit",
                    pop_after_push(collection, a, b).out, 0)
    /\ UNCHANGED <<types, status>>

InitTrait ==
    /\ MIN = 0 /\ MAX = UsizeMax
    /\ kind \in AllKinds
    /\ status = "plain"
    /\ collection = <<>>
    /\ call = NoCall

NextTrait ==
    \/ \E val \in Elem : PlainPush(val)
    \/ PlainPop
    \/ \E n \in 0..MaxLen : PlainShrinkTo(n)
    \/ \E n \in 0..MaxLen, fill \in Fills : PlainExtendToWith(n, fill)
    \/ \E n \in 0..MaxLen, val \in Elem : PlainExtendTo(n, val)
    \/ \E a \in Elem, b \in Elem : PopAfterPush(a, b)

SpecTrait == InitTrait /\ [][NextTrait]_vars

(* Serialize and Deserialize of the wrapper (feature impl_serde); the plain *)
(* collection stands for what C::deserialize decodes                       *)

Deserialize ==
    /\ status = "plain"
    /\ status' = deserialize(collection).status
    /\ collection' = deserialize(collection).coll
    /\ call' = Call("deserialize", collection, NoVal, NoFill,
                    deserialize(collection).ret, NoVal, 0)
    /\ UNCHANGED types

\* C::deserialize(deserializer)? fails: its error is returned
DeserializeFails ==
    /\ status = "plain"
    /\ collection' = <<>>
    /\ call' = Call("deserialize", <<>>, NoVal, NoFill, "Error", NoVal, 0)
    /\ UNCHANGED <<types, status>>

Serialize ==
    /\ status = "wrapped"
    /\ call' = Call("serialize", collection, NoVal, NoFill, "Ok", serialize(collection), 0)
    /\ UNCHANGED <<types, status, collection>>

NextSerde ==
    \/ \E val \in Elem : PlainPush(val)
    \/ PlainPop
    \/ Deserialize
    \/ DeserializeFails
    \/ Serialize
    \/ IntoInner

SpecSerde == Init /\ [][NextSerde]_vars

\* pop called on a wrapper right after a push that returned Ok: the call
\* record keeps the contents before the push and the value pushed
PopAfterPushOk ==
    /\ status = "wrapped"
    /\ call.op = "push" /\ call.ret = "Ok"
    /\ collection' = pop(collection).coll
    /\ call' = Call("pop_after_push_ok", call.arg, call.val, NoFill,
                    pop(collection).ret, pop(collection).out, 0)
    /\ UNCHANGED <<types, status>>

\* wrappers built by the constructors and used through push and pop
NextPushPop ==
    \/ \E val \in Elem : PlainPush(val)
    \/ PlainPop
    \/ New
    \/ NewFit
    \/ Default
    \/ \E val \in Elem : Push(val)
    \/ Pop
    \/ PopAfterPushOk
    \/ IntoInner

SpecPushPop == Init /\ [][NextPushPop]_vars

\* the same program over a String and its chars: SizeRestricted<char, String, MIN, MAX>,
\* NonEmptyString among them
InitString ==
    /\ \E b \in Bounds : MIN = b[1] /\ MAX = b[2]
    /\ kind = "String"
    /\ status = "plain"
    /\ collection = <<>>
    /\ call = NoCall

SpecString == InitString /\ [][Next]_vars

TypeOK ==
    /\ <<MIN, MAX>> \in Bounds \cup {<<0, UsizeMax>>}
    /\ kind \in AllKinds
    /\ status \in {"plain", "wrapped", "mutating", "fatal"}
    /\ collection \in Seq(Elem) /\ Len(collection) <= MaxLen
    /\ call.ret \in {"unit", "Ok", "TooLarge", "TooSmall", "Some", "None",
                     "panic", "invalid", "alloc", "Too Large", "Too Small", "Error"}

----------------------------------------------------------------------------
(* The claims *)

InRange(c) == MIN <= len(c) /\ len(c) <= MAX

\* C1: between public operations the len of a wrapper (MIN <= MAX) lies in
\* MIN..MAX, however it was constructed (new, new_fit, create, default) and
\* whatever push, pop and mutate did since.
C1_SizeInvariant ==
    status = "wrapped" => VALID /\ InRange(collection)

\* a wrapper just back from a mutate whose mutator left it too small
C1_Witness ==
    /\ status = "wrapped" /\ call.op = "mutate"
    /\ len(call.arg) < MIN /\ InRange(collection)

C4_NewRoundTrip ==
    /\ [](call.op = "new" /\ VALID /\ InRange(call.arg) =>
              /\ call.ret = "Ok" /\ status = "wrapped"
              /\ collection = call.arg /\ len(collection) = len(call.arg))
    /\ [](call.op = "into_inner" => status = "plain" /\ collection = call.arg)
    /\ [][(call.op = "new" /\ status = "wrapped" /\ status' = "plain")
              => collection' = call.arg]_vars

\* a collection that is not empty, wrapped by new
C4_Witness ==
    /\ call.op = "new" /\ call.ret = "Ok" /\ status = "wrapped"
    /\ len(call.arg) >= 2 /\ collection = call.arg

\* C5: new(c) on a collection that does not fit returns the error kind and c
\* itself, unmodified: TooLarge exactly when len(c) > MAX, TooSmall exactly
\* when len(c) < MIN; check_fit returns Ok exactly when c fits and the same
\* error kind otherwise, and does not modify c (wrapper types with MIN <= MAX).
C5_NewErr ==
    VALID =>
        /\ (call.op = "new" /\ ~InRange(call.arg)) =>
              /\ status = "plain" /\ collection = call.arg
              /\ call.ret \in {"TooLarge", "TooSmall"}
              /\ call.ret = "TooLarge" <=> len(call.arg) > MAX
              /\ call.ret = "TooSmall" <=> len(call.arg) < MIN
        /\ call.op = "check_fit" =>
              /\ status = "plain" /\ collection = call.arg
              /\ call.ret \in {"Ok", "TooLarge", "TooSmall"}
              /\ call.ret = "Ok" <=> InRange(call.arg)
              /\ call.ret = "TooLarge" <=> len(call.arg) > MAX
              /\ call.ret = "TooSmall" <=> len(call.arg) < MIN

\* a collection of len MAX + 1 handed back by new with TooLarge
C5_Witness ==
    /\ VALID /\ call.op = "new" /\ call.ret = "TooLarge"
    /\ status = "plain" /\ len(collection) = MAX + 1

C7_WitnessShrink ==
    /\ call.op = "make_fit_with" /\ call.ret = "unit"
    /\ len(call.arg) > MAX /\ MIN < MAX /\ len(collection) = MIN

\* C8: new_fit on an empty collection with bounds [1, 5], and with the
\* never-empty bounds [1, usize::MAX], yields a wrapper of len 1 holding the
\* default value.
C8_NewFitEmptyLenOne ==
    (call.op = "new_fit" /\ call.arg = <<>> /\ <<MIN, MAX>> \in {OneToFive, NonEmpty}) =>
        /\ status = "wrapped"
        /\ collection = <<T_default>>

\* C9: Default::default (MIN <= MAX) gives a wrapper of len exactly MIN, all
\* of whose elements are T::default(), the generator called once for each.
C9_Default ==
    (call.op = "default" /\ VALID) =>
        /\ status = "wrapped" /\ call.ret = "Ok"
        /\ len(collection) = MIN
        /\ \A i \in 1..len(collection) : collection[i] = T_default
        /\ call.fills = MIN

\* a default wrapper with MIN elements, below MAX
C9_Witness ==
    /\ call.op = "default" /\ status = "wrapped"
    /\ MIN >= 2 /\ MIN < MAX /\ len(collection) = MIN

C11_NonEmptyString ==
    (kind = "String" /\ <<MIN, MAX>> = NonEmpty /\ status = "wrapped") =>
        len(collection) >= 1

C13_InvalidBounds ==
    ~VALID =>
        /\ status \notin {"wrapped", "mutating"}
        /\ call.op \in {"new", "new_fit", "create", "default"} =>
              /\ status = "fatal" /\ call.ret = "invalid"
              /\ call.ret \notin {"Ok", "TooLarge", "TooSmall"}

\* new_fit of a type with MIN > MAX, given a collection of some elements
C13_Witness ==
    /\ MIN > MAX /\ call.op = "new_fit" /\ len(call.arg) >= 1
    /\ status = "fatal" /\ call.ret = "invalid"

\* C14: for Vec, VecDeque, LinkedList and String len() is the number of
\* elements, each push increases it by exactly 1 and each pop that returns
\* Some decreases it by exactly 1.
C14_LenCountsElements ==
    /\ len(collection) = Len(collection)
    /\ call.op = "C::push" => len(collection) = len(call.arg) + 1
    /\ (call.op = "C::pop" /\ call.ret = "Some") => len(collection) = len(call.arg) - 1

\* C15: on every backing collection and from any contents, push(a), push(b)
\* and two pops return Some(b) then Some(a) and leave the starting contents;
\* pop on an empty collection returns None.
C15_Lifo ==
    /\ call.op = "pop_after_push" =>
          /\ call.out = <<call.val[2], call.val[1]>>
          /\ collection = call.arg
    /\ (call.op = "C::pop" /\ call.arg = <<>>) =>
          call.ret = "None" /\ call.out = NoVal /\ collection = <<>>
    /\ (call.op = "C::pop" /\ call.arg # <<>>) =>
          call.ret = "Some" /\ call.out = call.arg[Len(call.arg)]

\* two different values pushed onto contents that are not empty, and popped
C15_Witness ==
    /\ call.op = "pop_after_push" /\ call.arg # <<>>
    /\ call.val[1] # call.val[2] /\ call.out[1] = call.val[2]

\* C16: extend_to_with(n, fill) and extend_to(n, v) on an element-counting
\* collection of len L: when L < n the old contents are followed by n - L new
\* elements in generation order, fill is invoked n - L times and the len is n
\* (extend_to: every new element is v); when L >= n nothing changes and fill
\* is never invoked.
C16_ExtendTo ==
    (call.op \in {"extend_to_with", "extend_to"} /\ kind \in Kinds) =>
        /\ status = "plain"
        /\ Len(call.arg) < call.n =>
              /\ len(collection) = call.n
              /\ SubSeq(collection, 1, Len(call.arg)) = call.arg
              /\ \A i \in 1..(call.n - Len(call.arg)) :
                    collection[Len(call.arg) + i] = FillVal(call.fill, i - 1)
              /\ call.fills = call.n - Len(call.arg)
              /\ call.op = "extend_to" =>
                    \A i \in (Len(call.arg) + 1)..Len(collection) : collection[i] = call.val
        /\ Len(call.arg) >= call.n =>
              collection = call.arg /\ call.fills = 0

\* a collection that is not empty extended by two or more elements
C16_Witness ==
    /\ call.op = "extend_to_with" /\ kind \in Kinds /\ call.fill.step = 1
    /\ call.arg # <<>> /\ call.n >= Len(call.arg) + 2 /\ Len(collection) = call.n

C18_Serde ==
    /\ (call.op = "deserialize" /\ VALID /\ call.ret # "Error") =>
          /\ InRange(call.arg) =>
                call.ret = "Ok" /\ status = "wrapped" /\ collection = call.arg
          /\ len(call.arg) > MAX =>
                call.ret = "Too Large" /\ status = "plain" /\ collection = <<>>
          /\ len(call.arg) < MIN =>
                call.ret = "Too Small" /\ status = "plain" /\ collection = <<>>
    /\ (call.op = "deserialize" /\ call.ret = "Error") => status = "plain"
    /\ call.op = "serialize" =>
          /\ call.out = C_serialize(collection)
          /\ status = "wrapped" /\ collection = call.arg

\* decoded data one element too long, refused
C18_Witness ==
    /\ VALID /\ call.op = "deserialize" /\ len(call.arg) = MAX + 1
    /\ call.ret = "Too Large" /\ status = "plain"

C21_PushPopRoundTrip ==
    (call.op = "pop_after_push_ok" /\ MIN < MAX) =>
        /\ call.ret = "Some" /\ call.out = call.val
        /\ collection = call.arg
        /\ status = "wrapped" /\ InRange(collection)

\* the push started from a non-empty wrapper at its lower bound, so the pop
\* brings the len back to MIN and still is not refused
C21_Witness ==
    /\ call.op = "pop_after_push_ok" /\ MIN < MAX
    /\ call.arg # <<>> /\ len(call.arg) = MIN
    /\ call.ret = "Some" /\ collection = call.arg

====
